---- MODULE Spec2Model ----
(***************************************************************************)
(* A model of tools/parse_docx_to_json.py: the image resolver, the run,    *)
(* cell and table renderers, and the manifest-keeping batch of main().     *)
(*                                                                         *)
(* Text is modelled as a sequence of one-character strings, so that        *)
(* startswith, slicing, strip, splitext, join and the number formatting    *)
(* are computed the way the Python code computes them.                     *)
(***************************************************************************)
EXTENDS Integers, Sequences, FiniteSets, TLC

VARIABLES
    phase,            \* position of the function under test ("call", "return",
                      \* "rendered") or of main ("idle", "loop", "done")
    doc,              \* extract_images_from_docx: the document container
    extracted,        \* extract_images_from_docx: its locals at return
    paragraph,        \* extract_paragraph_with_images: the paragraph
    image_map,        \* the renderers' image index (rId -> filename)
    rendered,         \* the renderers' returned string
    cell,             \* extract_cell_text_preserve_lists_and_images: the cell
    table,            \* parse_docx_table_with_images: the rows of the table
    has_header,       \* parse_docx_table_with_images / main: not args.no_header
    cards,            \* parse_docx_table_with_images: the returned records
    doc_basename,     \* extract_images_from_docx: the base name of the document
    directory,        \* main: the files of docx-dir, name -> content
    output_dir,       \* main: the files of output-dir but manifest.json
    manifest_file,    \* main: manifest.json in output-dir
    table_index,      \* main: args.table_index
    docx_files,       \* main: the documents the loop has still to process
    manifest_data,    \* main: the loaded manifest
    manifest_index,   \* main: the path -> entry index of the loaded manifest
    now,              \* the clock datetime.now() reads
    batches,          \* the number of batches started
    started,          \* history: the directory and the outputs at batch start
    previous,         \* history: the directory and the image files of the
                      \*          batch before
    journal           \* history: what the current batch listed, handled,
                      \*          skipped, wrote and staged, and whether it saved

fn_vars == <<doc, extracted, paragraph, image_map, rendered, cell, table,
             cards, doc_basename>>

batch_vars == <<directory, output_dir, manifest_file, table_index, docx_files,
                manifest_data, manifest_index, now, batches, started,
                previous, journal>>

vars == <<phase, has_header, fn_vars, batch_vars>>

(***************************************************************************)
(* Bounds of the model.                                                    *)
(***************************************************************************)
MaxRels == 3
MaxRuns == 3
MaxParagraphs == 2
MaxRows == 3
MaxTableIndex == 1
MaxClock == 2
MaxBatches == 2

(***************************************************************************)
(* Text helpers.                                                           *)
(***************************************************************************)
\* s.startswith(prefix)
startswith(s, prefix) ==
    /\ Len(s) >= Len(prefix)
    /\ SubSeq(s, 1, Len(prefix)) = prefix

\* s[n:]
DropFirst(s, n) == SubSeq(s, n + 1, Len(s))

\* s.rfind(ch): the last (1-based) index of ch in s, 0 when there is none
rfind(s, ch) ==
    LET hits == {i \in 1..Len(s) : s[i] = ch}
    IN  IF hits = {} THEN 0 ELSE CHOOSE i \in hits : \A j \in hits : j <= i

\* os.path.splitext(p)[1] (posixpath): the extension is what follows the last
\* dot of the last path component, leading dots of that component not counting.
splitext(p) ==
    LET sepIndex == rfind(p, "/")
        dotIndex == rfind(p, ".")
    IN  IF /\ dotIndex > sepIndex
           /\ \E k \in (sepIndex + 1)..(dotIndex - 1) : p[k] # "."
        THEN SubSeq(p, dotIndex, Len(p))
        ELSE <<>>

DigitChar(d) ==
    CASE d = 0 -> "0" [] d = 1 -> "1" [] d = 2 -> "2" [] d = 3 -> "3"
      [] d = 4 -> "4" [] d = 5 -> "5" [] d = 6 -> "6" [] d = 7 -> "7"
      [] d = 8 -> "8" [] d = 9 -> "9"

\* str(n) for n >= 0
RECURSIVE Decimal(_)
Decimal(n) ==
    IF n < 10 THEN <<DigitChar(n)>>
    ELSE Append(Decimal(n \div 10), DigitChar(n % 10))

\* f"{n:02d}": the decimal digits, zero-filled on the left to width 2
Format02d(n) ==
    LET d == Decimal(n)
    IN  IF Len(d) < 2 THEN <<"0">> \o d ELSE d

\* sub in s (Python's substring test)
Contains(s, sub) ==
    \E i \in 0..(Len(s) - Len(sub)) : SubSeq(s, i + 1, i + Len(sub)) = sub

(***************************************************************************)
(* Code points of the characters that occur in file names, for sorted().   *)
(***************************************************************************)
Ord(c) ==
    CASE c = " " -> 32 [] c = "$" -> 36 [] c = "." -> 46 [] c = "/" -> 47
      [] c = "0" -> 48 [] c = "1" -> 49 [] c = "2" -> 50 [] c = "3" -> 51
      [] c = "4" -> 52 [] c = "5" -> 53 [] c = "6" -> 54 [] c = "7" -> 55
      [] c = "8" -> 56 [] c = "9" -> 57
      [] c = "A" -> 65 [] c = "B" -> 66 [] c = "C" -> 67 [] c = "D" -> 68
      [] c = "I" -> 73 [] c = "O" -> 79 [] c = "X" -> 88
      [] c = "_" -> 95
      [] c = "a" -> 97 [] c = "b" -> 98 [] c = "c" -> 99 [] c = "d" -> 100
      [] c = "e" -> 101 [] c = "g" -> 103 [] c = "i" -> 105 [] c = "j" -> 106
      [] c = "m" -> 109 [] c = "n" -> 110 [] c = "o" -> 111 [] c = "p" -> 112
      [] c = "r" -> 114 [] c = "s" -> 115 [] c = "w" -> 119 [] c = "x" -> 120
      [] c = "~" -> 126

\* s < t for Python strings: lexicographic by code point
RECURSIVE StrLess(_, _)
StrLess(s, t) ==
    IF t = <<>> THEN FALSE
    ELSE IF s = <<>> THEN TRUE
    ELSE IF s[1] = t[1] THEN StrLess(Tail(s), Tail(t))
    ELSE Ord(s[1]) < Ord(t[1])

\* sorted(S) for a set S of strings
RECURSIVE sorted(_)
sorted(S) ==
    IF S = {} THEN <<>>
    ELSE LET least == CHOOSE s \in S : \A t \in S \ {s} : StrLess(s, t)
         IN  <<least>> \o sorted(S \ {least})

(***************************************************************************)
(* extract_images_from_docx.                                               *)
(*                                                                         *)
(* A document container is [rels, zip]: rels is the relationship metadata  *)
(* in the order rels.values() yields it, each [rId, reltype, target_ref];  *)
(* zip maps the names of the archive's entries to their bytes.             *)
(***************************************************************************)
\* final_name = None
None == <<>>

\* generated_at = None
NoTime == -1

WordSlash == <<"w", "o", "r", "d", "/">>
ImageWord == <<"i", "m", "a", "g", "e">>
ImageInfix == <<"_", "I", "m", "a", "g", "e">>
DotBin == <<".", "b", "i", "n">>

\* the rels the first loop keeps: "image" in rel.reltype
relid_to_target(rels) ==
    SelectSeq(rels, LAMBDA rel : Contains(rel.reltype, ImageWord))

\* the path into the zip of a target_ref
zip_path(target_ref) ==
    LET stripped == IF startswith(target_ref, <<"/">>)
                    THEN DropFirst(target_ref, 1) ELSE target_ref
    IN  IF ~startswith(stripped, WordSlash)
        THEN WordSlash \o stripped ELSE stripped

\* the extension a new final name gets
orig_ext(zp) == IF splitext(zp) = <<>> THEN DotBin ELSE splitext(zp)

\* f"{doc_basename}_Image{counter:02d}{orig_ext}"
final_name_of(base, counter, ext) ==
    base \o ImageInfix \o Format02d(counter) \o ext

\* the locals before the loop
\* (a variant that numbers on from the files already in the output folder,
\* to see that the rerun claim notices it)
ExtractStartAfterExisting ==
    [image_map |-> <<>>, target_to_final |-> <<>>, all_final_names |-> {},
     counter |-> 1 + Cardinality(DOMAIN output_dir), written |-> <<>>]

ExtractStart ==
    [image_map |-> <<>>, target_to_final |-> <<>>, all_final_names |-> {},
     counter |-> 1, written |-> <<>>]

\* whether the body of the loop takes the reuse branch for this zip path
\* (a variant that never reuses, to see that the dedup claim notices it)
AlreadyResolvedNever(st, zp) == FALSE
AlreadyResolved(st, zp) == zp \in DOMAIN st.target_to_final

\* the value of counter after a new final name was formed
\* (a variant that does not advance, to see that the numbering claim
\* notices it)
NextCounterStuck(counter) == counter
NextCounter(counter) == counter + 1

\* final_name after the copy raised KeyError: the except clause sets it to None
\* (a variant that keeps the name, to see that the missing-image claim
\* notices it)
OnKeyErrorKeepsName(fresh) == fresh
OnKeyError(fresh) == None

\* one pass of the loop body, for relationship rel
ExtractOne(st, rel, zip, base) ==
    LET zp == zip_path(rel.target_ref)
        reuse == AlreadyResolved(st, zp)
        fresh == final_name_of(base, st.counter, orig_ext(zp))
        found == zp \in DOMAIN zip
        final_name == IF reuse THEN st.target_to_final[zp]
                      ELSE IF found THEN fresh ELSE OnKeyError(fresh)
        st1 == IF reuse THEN st
               ELSE [st EXCEPT
                       !.counter = NextCounter(st.counter),
                       !.written = IF found
                                   THEN Append(@, [name |-> fresh, path |-> zp,
                                                   bytes |-> zip[zp]])
                                   ELSE @,
                       !.target_to_final = (zp :> final_name) @@ @]
    IN  IF final_name # None
        THEN [st1 EXCEPT !.image_map = (rel.rId :> final_name) @@ @,
                         !.all_final_names = @ \cup {final_name}]
        ELSE st1

RECURSIVE ExtractLoop(_, _, _, _)
ExtractLoop(st, rels, zip, base) ==
    IF rels = <<>> THEN st
    ELSE ExtractLoop(ExtractOne(st, Head(rels), zip, base),
                     Tail(rels), zip, base)

\* the locals of extract_images_from_docx at its return; it returns
\* (image_map, sorted(all_final_names)) and has written the files of `written`
extract_images_from_docx(d, base) ==
    LET st == ExtractLoop(ExtractStart, relid_to_target(d.rels), d.zip,
                          base)
    IN  [st EXCEPT !.all_final_names = sorted(@)]

(***************************************************************************)
(* extract_paragraph_with_images.                                          *)
(*                                                                         *)
(* A paragraph is [runs, hasPPr, hasNumPr, hasIlvl, ilvlParses, ilvlVal];  *)
(* a run is [text, drawings]; a drawing is [hasBlip, embed], embed being   *)
(* the r:embed attribute of its first a:blip, "" when the blip has none.   *)
(***************************************************************************)
PlaceholderOpen == <<"[", "[", "i", "m", "a", "g", "e", ":">>
PlaceholderClose == <<"]", "]">>

\* f"[[image:{image_filename}]]"
Placeholder(image_filename) ==
    PlaceholderOpen \o image_filename \o PlaceholderClose

\* the characters str.strip() removes
IsSpace(c) == c \in {" ", "\t", "\n", "\r"}

RECURSIVE lstrip(_)
lstrip(s) ==
    IF s # <<>> /\ IsSpace(Head(s)) THEN lstrip(Tail(s)) ELSE s

RECURSIVE rstrip(_)
rstrip(s) ==
    IF s # <<>> /\ IsSpace(s[Len(s)])
    THEN rstrip(SubSeq(s, 1, Len(s) - 1)) ELSE s

\* s.strip()
strip(s) == rstrip(lstrip(s))

\* sep.join(parts)
RECURSIVE join(_, _)
join(sep, parts) ==
    IF parts = <<>> THEN <<>>
    ELSE IF Len(parts) = 1 THEN parts[1]
    ELSE parts[1] \o sep \o join(sep, Tail(parts))

\* the inner loop over a run's drawings: what it appends to runs_output
RECURSIVE DrawingsOutput(_, _)
DrawingsOutput(drawings, imap) ==
    IF drawings = <<>> THEN <<>>
    ELSE LET drawing == Head(drawings)
             here == IF drawing.hasBlip /\ drawing.embed \in DOMAIN imap
                     THEN <<Placeholder(imap[drawing.embed])>>
                     ELSE <<>>
         IN  here \o DrawingsOutput(Tail(drawings), imap)

\* what the body of the loop over paragraph.runs appends for one run
\* (a variant without the `continue`, to see that the run claim notices it)
RunOutputKeepsText(run, imap) ==
    IF run.drawings # <<>>
    THEN DrawingsOutput(run.drawings, imap)
            \o (IF run.text # <<>> THEN <<run.text>> ELSE <<>>)
    ELSE IF run.text # <<>> THEN <<run.text>> ELSE <<>>

RunOutput(run, imap) ==
    IF run.drawings # <<>>
    THEN DrawingsOutput(run.drawings, imap)
    ELSE IF run.text # <<>> THEN <<run.text>> ELSE <<>>

RECURSIVE runs_output(_, _)
runs_output(runs, imap) ==
    IF runs = <<>> THEN <<>>
    ELSE RunOutput(Head(runs), imap) \o runs_output(Tail(runs), imap)

extract_paragraph_with_images(p, imap) ==
    strip(join(<<>>, runs_output(p.runs, imap)))

(***************************************************************************)
(* The cell renderers.  A cell is the sequence of its paragraphs.          *)
(***************************************************************************)
is_list_paragraph(p) ==
    IF ~p.hasPPr THEN FALSE ELSE p.hasNumPr

\* (a variant that ignores w:ilvl, to see that the cell claim notices it)
get_list_level_ignores_ilvl(p) == 0

get_list_level(p) ==
    IF ~p.hasPPr \/ ~p.hasNumPr THEN 0
    ELSE IF ~p.hasIlvl THEN 0
    ELSE IF p.ilvlParses THEN p.ilvlVal ELSE 0

\* "\t" * level
RECURSIVE Tabs(_)
Tabs(level) == IF level <= 0 THEN <<>> ELSE <<"\t">> \o Tabs(level - 1)

\* "\u2022 ": the bullet character (written by its code point) and a space
Bullet == <<"u2022", " ">>

\* the line a paragraph with non-empty content appends to lines
CellLine(p, content) ==
    IF is_list_paragraph(p)
    THEN Tabs(get_list_level(p)) \o Bullet \o content
    ELSE content

RECURSIVE CellLines(_, _)
CellLines(paragraphs, imap) ==
    IF paragraphs = <<>> THEN <<>>
    ELSE LET p == Head(paragraphs)
             content == extract_paragraph_with_images(p, imap)
             here == IF content = <<>> THEN <<>> ELSE <<CellLine(p, content)>>
         IN  here \o CellLines(Tail(paragraphs), imap)

extract_cell_text_preserve_lists_and_images(c, imap) ==
    join(<<"\n">>, CellLines(c, imap))

RECURSIVE TitleParts(_, _)
TitleParts(paragraphs, imap) ==
    IF paragraphs = <<>> THEN <<>>
    ELSE LET content == extract_paragraph_with_images(Head(paragraphs), imap)
             here == IF content # <<>> THEN <<content>> ELSE <<>>
         IN  here \o TitleParts(Tail(paragraphs), imap)

extract_cell_title_with_images(c, imap) ==
    strip(join(<<" ">>, TitleParts(c, imap)))

(***************************************************************************)
(* The row loop of parse_docx_table_with_images.  A table is the sequence  *)
(* of its rows, a row the sequence row.cells.                              *)
(***************************************************************************)
start_row(header) == IF header THEN 1 ELSE 0

\* whether the row loop appends a card for a row with these two strings
\* (a variant with `or` for `and`, to see that the row claim notices it)
KeepsCardNeedsBoth(title, detail) == ~(title = <<>> \/ detail = <<>>)
KeepsCard(title, detail) == ~(title = <<>> /\ detail = <<>>)

\* what the body of the row loop appends to cards for one row
RowCards(row, imap) ==
    IF Len(row) < 2 THEN <<>>
    ELSE LET title == extract_cell_title_with_images(row[1], imap)
             detail == extract_cell_text_preserve_lists_and_images(row[2], imap)
         IN  IF KeepsCard(title, detail)
             THEN <<[title |-> title, detail |-> detail]>>
             ELSE <<>>

RECURSIVE CardsOf(_, _)
CardsOf(rows, imap) ==
    IF rows = <<>> THEN <<>>
    ELSE RowCards(Head(rows), imap) \o CardsOf(Tail(rows), imap)

\* table.rows[start_row:] walked by the row loop
parse_rows(rows, header, imap) ==
    CardsOf(DropFirst(rows, start_row(header)), imap)

(***************************************************************************)
(* The inputs of the image resolver.                                       *)
(***************************************************************************)
ImageRelType == <<"r", "/", "i", "m", "a", "g", "e">>
LinkRelType == <<"r", "/", "h", "y", "p", "e", "r", "l", "i", "n", "k">>

MediaAPng == <<"m", "e", "d", "i", "a", "/", "a", ".", "p", "n", "g">>
AbsWordMediaAPng == <<"/", "w", "o", "r", "d", "/", "m", "e", "d", "i", "a", "/", "a", ".", "p", "n", "g">>
WordMediaAPng == <<"w", "o", "r", "d", "/", "m", "e", "d", "i", "a", "/", "a", ".", "p", "n", "g">>
AbsMediaB == <<"/", "m", "e", "d", "i", "a", "/", "b">>
MediaCJpg == <<"m", "e", "d", "i", "a", "/", "c", ".", "j", "p", "g">>
MediaDotD == <<"m", "e", "d", "i", "a", "/", ".", "d">>
LinkTarget == <<"x", ".", "p", "n", "g">>

ZipAPng == <<"w", "o", "r", "d", "/", "m", "e", "d", "i", "a", "/", "a", ".", "p", "n", "g">>
ZipB == <<"w", "o", "r", "d", "/", "m", "e", "d", "i", "a", "/", "b">>
ZipCJpg == <<"w", "o", "r", "d", "/", "m", "e", "d", "i", "a", "/", "c", ".", "j", "p", "g">>
ZipDotD == <<"w", "o", "r", "d", "/", "m", "e", "d", "i", "a", "/", ".", "d">>

\* the kinds of relationship a document's metadata is drawn from
RelKinds ==
    {[reltype |-> ImageRelType, target_ref |-> MediaAPng],
     [reltype |-> ImageRelType, target_ref |-> AbsWordMediaAPng],
     [reltype |-> ImageRelType, target_ref |-> WordMediaAPng],
     [reltype |-> ImageRelType, target_ref |-> AbsMediaB],
     [reltype |-> ImageRelType, target_ref |-> MediaCJpg],
     [reltype |-> ImageRelType, target_ref |-> MediaDotD],
     [reltype |-> LinkRelType, target_ref |-> LinkTarget]}

\* the archives a document is drawn from: every entry, none, one, all but a.png
ZipPool ==
    {(ZipAPng :> "bytesA") @@ (ZipB :> "bytesB") @@ (ZipCJpg :> "bytesA")
        @@ (ZipDotD :> "bytesD"),
     <<>>,
     (ZipAPng :> "bytesA"),
     (ZipB :> "bytesB") @@ (ZipCJpg :> "bytesC") @@ (ZipDotD :> "bytesD")}

RId(i) == "rId" \o ToString(i)

RelsOf(kinds) ==
    [i \in 1..Len(kinds) |-> [rId |-> RId(i), reltype |-> kinds[i].reltype,
                              target_ref |-> kinds[i].target_ref]]

\* a document of eleven images at distinct paths, the third one missing
\* from the archive
MediaSlash == <<"m", "e", "d", "i", "a", "/">>

ManyImagesDoc ==
    [rels |-> RelsOf([i \in 1..11 |->
                        [reltype |-> ImageRelType,
                         target_ref |-> IF i = 11 THEN MediaAPng
                                        ELSE MediaSlash \o <<DigitChar(i - 1)>>]]),
     zip |-> [path \in {ZipAPng} \cup
                       {WordSlash \o MediaSlash \o <<DigitChar(i)>> :
                           i \in (0..9) \ {2}} |-> "bytesA"]]

ImageDocs ==
    UNION {{[rels |-> RelsOf(kinds), zip |-> z] :
               kinds \in [1..n -> RelKinds], z \in ZipPool} : n \in 0..MaxRels}
       \cup {ManyImagesDoc}

BaseA == <<"A">>
BaseBc == <<"B", " ", "c">>
Basenames == {BaseA, BaseBc}

(***************************************************************************)
(* Values of the variables an operation does not use.                      *)
(***************************************************************************)
PlainParagraph(runs) ==
    [runs |-> runs, hasPPr |-> FALSE, hasNumPr |-> FALSE, hasIlvl |-> FALSE,
     ilvlParses |-> FALSE, ilvlVal |-> 0]

TextRun(text) == [text |-> text, drawings |-> <<>>]

\* a run whose element holds the given drawings beside its text
DrawingRun(text, drawings) == [text |-> text, drawings |-> drawings]

Blip(embed) == [hasBlip |-> TRUE, embed |-> embed]

NoImages ==
    /\ doc = [rels |-> <<>>, zip |-> <<>>]
    /\ doc_basename = <<>>
    /\ extracted = ExtractStart

NoRendering ==
    /\ paragraph = PlainParagraph(<<>>)
    /\ image_map = <<>>
    /\ rendered = <<>>
    /\ cell = <<>>
    /\ table = <<>>
    /\ cards = <<>>

NoManifest == [exists |-> FALSE, generated_at |-> NoTime, files |-> <<>>]

NoJournal ==
    [listed |-> <<>>, handled |-> <<>>, skipped |-> {}, json_written |-> {},
     written_by |-> <<>>, staged |-> {}, saved |-> FALSE]

NoBatch ==
    /\ directory = <<>>
    /\ output_dir = <<>>
    /\ manifest_file = NoManifest
    /\ table_index = 0
    /\ docx_files = <<>>
    /\ manifest_data = [generated_at |-> NoTime]
    /\ manifest_index = <<>>
    /\ now = 0
    /\ batches = 0
    /\ started = [directory |-> <<>>, output_dir |-> <<>>,
                  manifest_file |-> NoManifest]
    /\ previous = [ran |-> FALSE, directory |-> <<>>, written_by |-> <<>>]
    /\ journal = NoJournal

(***************************************************************************)
(* SpecImages: extract_images_from_docx on every document of ImageDocs,    *)
(* then the run renderer on a drawing that references one of its           *)
(* relationship ids, with the image_map the extraction returned.           *)
(***************************************************************************)
InitImages ==
    /\ phase = "call"
    /\ doc \in ImageDocs
    /\ doc_basename \in Basenames
    /\ extracted = ExtractStart
    /\ NoRendering
    /\ has_header = TRUE
    /\ NoBatch

CallExtractImages ==
    /\ phase = "call"
    /\ extracted' = extract_images_from_docx(doc, doc_basename)
    /\ phase' = "return"
    /\ UNCHANGED <<doc, doc_basename, paragraph, image_map, rendered, cell,
                   table, has_header, cards, batch_vars>>

\* the relationship ids a drawing of the document may reference: its own and
\* one that no relationship of the document carries
DrawingRefs(d) == {d.rels[i].rId : i \in 1..Len(d.rels)} \cup {"rId0"}

RenderDrawing ==
    /\ phase = "return"
    /\ \E rid \in DrawingRefs(doc) :
          /\ paragraph' = PlainParagraph(<<TextRun(<<"a">>),
                                           DrawingRun(<<"b">>, <<Blip(rid)>>)>>)
          /\ image_map' = extracted.image_map
          /\ rendered' = extract_paragraph_with_images(paragraph', image_map')
    /\ phase' = "rendered"
    /\ UNCHANGED <<doc, doc_basename, extracted, cell, table, has_header, cards,
                   batch_vars>>

NextImages == CallExtractImages \/ RenderDrawing

SpecImages == InitImages /\ [][NextImages]_vars

(***************************************************************************)
(* Claims about the image resolver.                                        *)
(***************************************************************************)
\* the indices of the document's image relationships
ImageRelIndices(d) ==
    {i \in 1..Len(d.rels) : Contains(d.rels[i].reltype, ImageWord)}

PathOfRel(d, i) == zip_path(d.rels[i].target_ref)

\* the document's distinct container paths, in first-seen order
RECURSIVE FirstSeen(_, _)
FirstSeen(d, n) ==
    IF n = 0 THEN <<>>
    ELSE LET before == FirstSeen(d, n - 1)
         IN  IF /\ n \in ImageRelIndices(d)
                /\ \A k \in 1..Len(before) : before[k] # PathOfRel(d, n)
             THEN Append(before, PathOfRel(d, n))
             ELSE before

FirstSeenPaths(d) == FirstSeen(d, Len(d.rels))

\* how many files the call copied out of the entry at this path
CopiesOf(path) ==
    Cardinality({k \in 1..Len(extracted.written) :
                    extracted.written[k].path = path})

\* the counter advanced exactly once for each distinct container path
CounterOncePerPath ==
    extracted.counter = 1 + Len(FirstSeenPaths(doc))

\* <document-basename>_Image<k zero-padded to 2 digits><ext>
PatternName(base, k, path) ==
    base \o <<"_", "I", "m", "a", "g", "e">>
         \o (IF k < 10 THEN <<"0", DigitChar(k)>>
             ELSE IF k < 100 THEN <<DigitChar(k \div 10), DigitChar(k % 10)>>
             ELSE Decimal(k))
         \o orig_ext(path)

\* C1 as stated: after extract_images_from_docx, any two image relationship
\* ids whose targets normalize to the same container path are both mapped by
\* image_map, to the same filename; the entry is copied at most once and the
\* counter advances at most once for the path.
C1_BothMappedToSameName ==
    phase # "call" =>
        /\ \A i, j \in ImageRelIndices(doc) :
              PathOfRel(doc, i) = PathOfRel(doc, j) =>
                  /\ doc.rels[i].rId \in DOMAIN extracted.image_map
                  /\ doc.rels[j].rId \in DOMAIN extracted.image_map
                  /\ extracted.image_map[doc.rels[i].rId]
                        = extracted.image_map[doc.rels[j].rId]
                  /\ CopiesOf(PathOfRel(doc, i)) <= 1
        /\ CounterOncePerPath

\* C1 as amended: two ids with the same container path are mapped to the same
\* filename when the path is in the container and are both unmapped when it is
\* not; the entry is copied at most once (exactly once when present, never
\* when absent) and the counter advances once for the path.
C1_SamePathSameName ==
    phase # "call" =>
        /\ \A i, j \in ImageRelIndices(doc) :
              PathOfRel(doc, i) = PathOfRel(doc, j) =>
                  IF PathOfRel(doc, i) \in DOMAIN doc.zip
                  THEN /\ doc.rels[i].rId \in DOMAIN extracted.image_map
                       /\ doc.rels[j].rId \in DOMAIN extracted.image_map
                       /\ extracted.image_map[doc.rels[i].rId]
                             = extracted.image_map[doc.rels[j].rId]
                       /\ CopiesOf(PathOfRel(doc, i)) = 1
                  ELSE /\ doc.rels[i].rId \notin DOMAIN extracted.image_map
                       /\ doc.rels[j].rId \notin DOMAIN extracted.image_map
                       /\ CopiesOf(PathOfRel(doc, i)) = 0
        /\ CounterOncePerPath

\* two ids with differently written targets of one present path, met around a
\* relationship of another path, came out with one name
C1_Witness ==
    /\ phase = "return"
    /\ Len(doc.rels) = 3
    /\ ImageRelIndices(doc) = {1, 2, 3}
    /\ doc.rels[1].target_ref # doc.rels[3].target_ref
    /\ PathOfRel(doc, 1) = PathOfRel(doc, 3)
    /\ PathOfRel(doc, 1) # PathOfRel(doc, 2)
    /\ {PathOfRel(doc, 1), PathOfRel(doc, 2)} \subseteq DOMAIN doc.zip
    /\ extracted.image_map["rId1"] = extracted.image_map["rId3"]
    /\ Len(extracted.written) = 2

\* C2 as stated: the k-th distinct container path met receives the filename
\* <basename>_Image<k, 2 digits><ext>, numbers starting at 1, and no two
\* distinct paths receive the same filename.
C2_KthPathGetsKthName ==
    phase # "call" =>
        LET paths == FirstSeenPaths(doc)
        IN  /\ DOMAIN extracted.target_to_final = {paths[k] : k \in 1..Len(paths)}
            /\ \A k \in 1..Len(paths) :
                  extracted.target_to_final[paths[k]]
                     = PatternName(doc_basename, k, paths[k])
            /\ \A k, m \in 1..Len(paths) :
                  k # m => extracted.target_to_final[paths[k]]
                              # extracted.target_to_final[paths[m]]

\* C2 as amended: the k-th distinct container path met receives the filename
\* <basename>_Image<k, 2 digits><ext> when it is in the container and no
\* filename when it is not (its number k is then used up: the numbers in use
\* can start above 1 and have gaps); no two distinct paths receive the same
\* filename; the counter starts at 1 in each call.
C2_KthPresentPathGetsKthName ==
    phase # "call" =>
        LET paths == FirstSeenPaths(doc)
        IN  /\ DOMAIN extracted.target_to_final = {paths[k] : k \in 1..Len(paths)}
            /\ \A k \in 1..Len(paths) :
                  extracted.target_to_final[paths[k]]
                     = IF paths[k] \in DOMAIN doc.zip
                       THEN PatternName(doc_basename, k, paths[k])
                       ELSE None
            /\ \A k, m \in 1..Len(paths) :
                  (k # m /\ {paths[k], paths[m]} \subseteq DOMAIN doc.zip)
                     => extracted.target_to_final[paths[k]]
                           # extracted.target_to_final[paths[m]]
            /\ extracted.counter = 1 + Len(paths)
            /\ \A f \in 1..Len(extracted.all_final_names) :
                  \E k \in 1..Len(paths) :
                     extracted.all_final_names[f]
                        = PatternName(doc_basename, k, paths[k])

\* two distinct present paths were numbered 1 and 2 in the order met, the
\* first met twice and the second without an extension
C2_Witness ==
    /\ phase = "return"
    /\ doc # ManyImagesDoc
    /\ Len(doc.rels) = 3
    /\ Len(FirstSeenPaths(doc)) = 2
    /\ DOMAIN extracted.image_map = {"rId1", "rId2", "rId3"}
    /\ PathOfRel(doc, 1) = PathOfRel(doc, 2)
    /\ 3 \in ImageRelIndices(doc)
    /\ orig_ext(PathOfRel(doc, 3)) = DotBin
    /\ extracted.image_map["rId3"]
          = doc_basename \o <<"_", "I", "m", "a", "g", "e", "0", "2", ".", "b", "i", "n">>
    /\ Len(extracted.all_final_names) = 2

\* eleven distinct paths, the third missing: the tenth and the eleventh got
\* the two-digit numbers 10 and 11, no file has the number 3
C2_WitnessTwoDigits ==
    /\ phase = "return"
    /\ doc = ManyImagesDoc
    /\ doc_basename = BaseA
    /\ "rId3" \notin DOMAIN extracted.image_map
    /\ extracted.image_map["rId10"]
          = <<"A", "_", "I", "m", "a", "g", "e", "1", "0", ".", "b", "i", "n">>
    /\ extracted.image_map["rId11"]
          = <<"A", "_", "I", "m", "a", "g", "e", "1", "1", ".", "p", "n", "g">>
    /\ Len(extracted.all_final_names) = 10

\* C7: an image relationship whose normalized target is absent from the
\* container is skipped: nothing is written for it, its id (and every id of
\* the same path) is not in image_map, the name formed for it is not in the
\* returned file list, every relationship whose path is present is still
\* resolved, and the run renderer gives no placeholder for a drawing that
\* references an unmapped id (only the text of the other runs).
C7_MissingPathSkipped ==
    /\ phase # "call" =>
          LET paths == FirstSeenPaths(doc)
          IN  /\ \A i \in ImageRelIndices(doc) :
                    IF PathOfRel(doc, i) \in DOMAIN doc.zip
                    THEN doc.rels[i].rId \in DOMAIN extracted.image_map
                    ELSE /\ doc.rels[i].rId \notin DOMAIN extracted.image_map
                         /\ CopiesOf(PathOfRel(doc, i)) = 0
              /\ \A k \in 1..Len(paths) :
                    paths[k] \notin DOMAIN doc.zip =>
                       \A f \in 1..Len(extracted.all_final_names) :
                          extracted.all_final_names[f]
                             # PatternName(doc_basename, k, paths[k])
              /\ Len(extracted.written)
                    = Cardinality({k \in 1..Len(paths) : paths[k] \in DOMAIN doc.zip})
    /\ phase = "rendered" =>
          LET rid == paragraph.runs[2].drawings[1].embed
          IN  rendered = IF rid \in DOMAIN extracted.image_map
                         THEN <<"a">> \o Placeholder(extracted.image_map[rid])
                         ELSE <<"a">>

\* a document whose first image relationship has no entry in the container
\* and whose third has one; a drawing referencing the first was rendered
C7_Witness ==
    /\ phase = "rendered"
    /\ Len(doc.rels) = 3
    /\ ImageRelIndices(doc) = {1, 2, 3}
    /\ PathOfRel(doc, 1) \notin DOMAIN doc.zip
    /\ PathOfRel(doc, 2) = PathOfRel(doc, 1)
    /\ PathOfRel(doc, 3) \in DOMAIN doc.zip
    /\ paragraph.runs[2].drawings[1].embed = "rId1"
    /\ DOMAIN extracted.image_map = {"rId3"}
    /\ rendered = <<"a">>

(***************************************************************************)
(* The inputs of the renderers.                                            *)
(***************************************************************************)
DotPng == <<".", "p", "n", "g">>

\* the image indexes the renderers are given: none, one image, two images
ImageMaps ==
    {<<>>,
     ("rId1" :> final_name_of(BaseA, 1, DotPng)),
     ("rId1" :> final_name_of(BaseA, 1, DotPng))
        @@ ("rId2" :> final_name_of(BaseA, 2, DotBin))
        @@ ("rId3" :> final_name_of(BaseA, 1, DotPng))}

\* a drawing with no a:blip in it
NoBlip == [hasBlip |-> FALSE, embed |-> ""]

\* the runs a paragraph is drawn from
RunPool ==
    {TextRun(<<>>),
     TextRun(<<"a">>),
     TextRun(<<" ">>),
     TextRun(<<" ", "b">>),
     TextRun(<<"c", "\t">>),
     DrawingRun(<<"x">>, <<Blip("rId1")>>),
     DrawingRun(<<>>, <<Blip("rId2"), Blip("rId3")>>),
     DrawingRun(<<"y">>, <<Blip("rId0"), NoBlip>>),
     DrawingRun(<<"z", " ">>, <<Blip(""), Blip("rId1")>>)}

SeqsUpTo(S, n) == UNION {[1..k -> S] : k \in 0..n}

(***************************************************************************)
(* SpecRun: extract_paragraph_with_images on every paragraph of at most    *)
(* MaxRuns runs of RunPool, with every image index of ImageMaps.           *)
(***************************************************************************)
InitRun ==
    /\ phase = "call"
    /\ NoBatch
    /\ NoImages
    /\ \E runs \in SeqsUpTo(RunPool, MaxRuns) : paragraph = PlainParagraph(runs)
    /\ image_map \in ImageMaps
    /\ rendered = <<>>
    /\ cell = <<>>
    /\ table = <<>>
    /\ has_header = TRUE
    /\ cards = <<>>

RenderParagraph ==
    /\ phase = "call"
    /\ rendered' = extract_paragraph_with_images(paragraph, image_map)
    /\ phase' = "return"
    /\ UNCHANGED <<doc, doc_basename, extracted, paragraph, image_map, cell,
                   table, has_header, cards, batch_vars>>

NextRun == RenderParagraph

SpecRun == InitRun /\ [][NextRun]_vars

\* the piece of one run: the placeholders of its drawings whose relationship
\* id is in the index when it has a drawing, its text otherwise
RECURSIVE PlaceholdersUpTo(_, _, _)
PlaceholdersUpTo(drawings, imap, n) ==
    IF n = 0 THEN <<>>
    ELSE PlaceholdersUpTo(drawings, imap, n - 1)
            \o (IF drawings[n].hasBlip /\ drawings[n].embed \in DOMAIN imap
                THEN <<"[", "[", "i", "m", "a", "g", "e", ":">>
                        \o imap[drawings[n].embed] \o <<"]", "]">>
                ELSE <<>>)

PieceOf(run, imap) ==
    IF Len(run.drawings) > 0
    THEN PlaceholdersUpTo(run.drawings, imap, Len(run.drawings))
    ELSE run.text

RECURSIVE PiecesUpTo(_, _, _)
PiecesUpTo(runs, imap, n) ==
    IF n = 0 THEN <<>>
    ELSE PiecesUpTo(runs, imap, n - 1) \o PieceOf(runs[n], imap)

\* s without its leading and trailing whitespace: from its first character
\* that is not whitespace to its last
Trimmed(s) ==
    LET solid == {i \in 1..Len(s) : s[i] \notin {" ", "\t", "\n", "\r"}}
    IN  IF solid = {} THEN <<>>
        ELSE SubSeq(s, CHOOSE i \in solid : \A j \in solid : i <= j,
                       CHOOSE i \in solid : \A j \in solid : j <= i)

\* C9: the run renderer returns the trimmed concatenation, in run order and
\* with no separator, of one piece per run: only the placeholders of the
\* indexed drawings for a run with a drawing, the literal text for any other.
C9_TrimmedConcatenationOfPieces ==
    phase = "return" =>
        rendered = Trimmed(PiecesUpTo(paragraph.runs, image_map,
                                      Len(paragraph.runs)))

\* a text run, then a run with text and two drawings of which one is indexed,
\* then a text run ending in whitespace: one placeholder between the texts,
\* the drawing run's own text dropped
C9_Witness ==
    /\ phase = "return"
    /\ Len(paragraph.runs) = 3
    /\ paragraph.runs[1] = TextRun(<<" ", "b">>)
    /\ paragraph.runs[2] = DrawingRun(<<"z", " ">>, <<Blip(""), Blip("rId1")>>)
    /\ paragraph.runs[3] = TextRun(<<"c", "\t">>)
    /\ "rId1" \in DOMAIN image_map
    /\ rendered = <<"b">> \o Placeholder(image_map["rId1"]) \o <<"c">>

(***************************************************************************)
(* SpecCell: extract_cell_text_preserve_lists_and_images on every cell of  *)
(* at most MaxParagraphs paragraphs of ParagraphPool.                      *)
(***************************************************************************)
\* the runs of the paragraphs a cell is drawn from
ParagraphRuns ==
    {<<>>,
     <<TextRun(<<"a">>)>>,
     <<TextRun(<<" ">>)>>,
     <<TextRun(<<" ", "b", " ">>), DrawingRun(<<"x">>, <<Blip("rId1")>>)>>,
     <<DrawingRun(<<"y">>, <<Blip("rId0")>>)>>}

\* the numbering properties of the paragraphs a cell is drawn from: no w:pPr,
\* no w:numPr, no w:ilvl, levels 0, 1 and 2, a level that int() rejects
ListProperties ==
    {[hasPPr |-> FALSE, hasNumPr |-> FALSE, hasIlvl |-> FALSE,
      ilvlParses |-> FALSE, ilvlVal |-> 0],
     [hasPPr |-> TRUE, hasNumPr |-> FALSE, hasIlvl |-> FALSE,
      ilvlParses |-> FALSE, ilvlVal |-> 0],
     [hasPPr |-> TRUE, hasNumPr |-> TRUE, hasIlvl |-> FALSE,
      ilvlParses |-> FALSE, ilvlVal |-> 0],
     [hasPPr |-> TRUE, hasNumPr |-> TRUE, hasIlvl |-> TRUE,
      ilvlParses |-> TRUE, ilvlVal |-> 0],
     [hasPPr |-> TRUE, hasNumPr |-> TRUE, hasIlvl |-> TRUE,
      ilvlParses |-> TRUE, ilvlVal |-> 1],
     [hasPPr |-> TRUE, hasNumPr |-> TRUE, hasIlvl |-> TRUE,
      ilvlParses |-> TRUE, ilvlVal |-> 2],
     [hasPPr |-> TRUE, hasNumPr |-> TRUE, hasIlvl |-> TRUE,
      ilvlParses |-> FALSE, ilvlVal |-> 0]}

WithRuns(props, runs) ==
    [runs |-> runs, hasPPr |-> props.hasPPr, hasNumPr |-> props.hasNumPr,
     hasIlvl |-> props.hasIlvl, ilvlParses |-> props.ilvlParses,
     ilvlVal |-> props.ilvlVal]

ParagraphPool ==
    {WithRuns(props, runs) : props \in ListProperties, runs \in ParagraphRuns}

InitCell ==
    /\ phase = "call"
    /\ NoBatch
    /\ NoImages
    /\ paragraph = PlainParagraph(<<>>)
    /\ image_map \in ImageMaps
    /\ rendered = <<>>
    /\ cell \in SeqsUpTo(ParagraphPool, MaxParagraphs)
    /\ table = <<>>
    /\ has_header = TRUE
    /\ cards = <<>>

RenderCell ==
    /\ phase = "call"
    /\ rendered' = extract_cell_text_preserve_lists_and_images(cell, image_map)
    /\ phase' = "return"
    /\ UNCHANGED <<doc, doc_basename, extracted, paragraph, image_map, cell,
                   table, has_header, cards, batch_vars>>

NextCell == RenderCell

SpecCell == InitCell /\ [][NextCell]_vars

\* the indentation level of a paragraph with numbering properties: its level
\* attribute, 0 when that is absent or unparsable
LevelOf(p) == IF p.hasIlvl /\ p.ilvlParses THEN p.ilvlVal ELSE 0

\* the line of a paragraph whose rendered content is not empty
LineOf(p, content) ==
    IF p.hasPPr /\ p.hasNumPr
    THEN [i \in 1..LevelOf(p) |-> "\t"] \o <<"u2022", " ">> \o content
    ELSE content

\* the newline-join of the lines of the first n paragraphs
RECURSIVE LinesJoinedUpTo(_, _, _)
LinesJoinedUpTo(c, imap, n) ==
    IF n = 0 THEN <<>>
    ELSE LET before == LinesJoinedUpTo(c, imap, n - 1)
             content == extract_paragraph_with_images(c[n], imap)
             emitted == \E k \in 1..(n - 1) :
                           extract_paragraph_with_images(c[k], imap) # <<>>
         IN  IF content = <<>> THEN before
             ELSE IF emitted THEN before \o <<"\n">> \o LineOf(c[n], content)
             ELSE LineOf(c[n], content)

\* C8: in list-and-image-preserving mode the result is the newline-join, in
\* paragraph order, of one line per paragraph with non-empty content: level
\* tabs, the bullet and a space before the content of a paragraph with
\* numbering properties, the content alone for any other.
C8_NewlineJoinOfLines ==
    phase = "return" =>
        rendered = LinesJoinedUpTo(cell, image_map, Len(cell))

\* a level-2 list paragraph and a plain paragraph, both with content
C8_Witness ==
    /\ phase = "return"
    /\ Len(cell) = 2
    /\ cell[1].hasIlvl /\ cell[1].ilvlParses /\ cell[1].ilvlVal = 2
    /\ cell[1].runs = <<TextRun(<<"a">>)>>
    /\ ~cell[2].hasPPr
    /\ cell[2].runs = <<TextRun(<<"a">>)>>
    /\ rendered = <<"\t", "\t", "u2022", " ", "a", "\n", "a">>

(***************************************************************************)
(* SpecTable: the row loop of parse_docx_table_with_images on every table  *)
(* of at most MaxRows rows of RowPool, with and without a header row.      *)
(***************************************************************************)
EmptyCell == <<PlainParagraph(<<>>)>>
BlankCell == <<PlainParagraph(<<TextRun(<<" ">>)>>)>>
TitleCell == <<PlainParagraph(<<TextRun(<<"C", "a", "t", "s">>)>>),
               PlainParagraph(<<TextRun(<<" ">>)>>),
               PlainParagraph(<<DrawingRun(<<>>, <<Blip("rId1")>>)>>)>>
ListCell ==
    <<WithRuns([hasPPr |-> TRUE, hasNumPr |-> TRUE, hasIlvl |-> TRUE,
                ilvlParses |-> TRUE, ilvlVal |-> 0], <<TextRun(<<"a">>)>>),
      WithRuns([hasPPr |-> TRUE, hasNumPr |-> TRUE, hasIlvl |-> TRUE,
                ilvlParses |-> TRUE, ilvlVal |-> 1], <<TextRun(<<"b">>)>>)>>

\* the rows a table is drawn from
RowPool ==
    {<<TitleCell>>,
     <<EmptyCell, EmptyCell>>,
     <<BlankCell, BlankCell>>,
     <<TitleCell, EmptyCell>>,
     <<BlankCell, ListCell>>,
     <<TitleCell, ListCell>>,
     <<EmptyCell, TitleCell, ListCell>>}

InitTable ==
    /\ phase = "call"
    /\ NoBatch
    /\ NoImages
    /\ paragraph = PlainParagraph(<<>>)
    /\ image_map \in ImageMaps
    /\ rendered = <<>>
    /\ cell = <<>>
    /\ table \in SeqsUpTo(RowPool, MaxRows)
    /\ has_header \in BOOLEAN
    /\ cards = <<>>

ParseTable ==
    /\ phase = "call"
    /\ cards' = parse_rows(table, has_header, image_map)
    /\ phase' = "return"
    /\ UNCHANGED <<doc, doc_basename, extracted, paragraph, image_map,
                   rendered, cell, table, has_header, batch_vars>>

NextTable == ParseTable

SpecTable == InitTable /\ [][NextTable]_vars

\* the record of a row: its first cell in title mode, its second in list mode
RecordOf(row, imap) ==
    [title |-> extract_cell_title_with_images(row[1], imap),
     detail |-> extract_cell_text_preserve_lists_and_images(row[2], imap)]

\* the (1-based) rows that give a record: from the start row on, at least two
\* cells, title or detail not empty after trimming
RecordRows(rows, header, imap) ==
    {i \in ((IF header THEN 1 ELSE 0) + 1)..Len(rows) :
        /\ Len(rows[i]) >= 2
        /\ \/ Trimmed(RecordOf(rows[i], imap).title) # <<>>
           \/ Trimmed(RecordOf(rows[i], imap).detail) # <<>>}

\* C5: exactly one record per row, from the start row on, that has at least
\* two cells and a non-empty title or detail, in source row order, nothing
\* sorted and nothing deduplicated.
C5_OneRecordPerKeptRow ==
    phase = "return" =>
        LET kept == RecordRows(table, has_header, image_map)
        IN  /\ Len(cards) = Cardinality(kept)
            /\ \A i \in kept :
                  cards[1 + Cardinality({j \in kept : j < i})]
                     = RecordOf(table[i], image_map)

\* a header row with content, then the same title-only row twice: two equal
\* records, in a table whose header would have given a third
C5_Witness ==
    /\ phase = "return"
    /\ has_header
    /\ Len(table) = 3
    /\ table[1] = <<BlankCell, ListCell>>
    /\ table[2] = <<TitleCell, EmptyCell>>
    /\ table[3] = <<TitleCell, EmptyCell>>
    /\ Len(cards) = 2
    /\ cards[1] = cards[2]
    /\ cards[1].detail = <<>>

(***************************************************************************)
(* main: the files it lists and the manifest helpers.                      *)
(***************************************************************************)
DotDocx == <<".", "d", "o", "c", "x">>
DotJson == <<".", "j", "s", "o", "n">>
LockPrefix == <<"~", "$">>

\* c.lower() for the letters that occur in file names
LowerChar(c) ==
    CASE c = "A" -> "a" [] c = "B" -> "b" [] c = "C" -> "c" [] c = "D" -> "d"
      [] c = "I" -> "i" [] c = "O" -> "o" [] c = "X" -> "x" [] OTHER -> c

lower(s) == [i \in 1..Len(s) |-> LowerChar(s[i])]

endswith(s, suffix) ==
    /\ Len(s) >= Len(suffix)
    /\ SubSeq(s, Len(s) - Len(suffix) + 1, Len(s)) = suffix

\* the filter of the docx_files comprehension
IsDocxFile(f) == endswith(lower(f), DotDocx) /\ ~startswith(f, LockPrefix)

\* docx_files = sorted(f for f in os.listdir(current_dir) if ...)
ListDocx(dir) == sorted({f \in DOMAIN dir : IsDocxFile(f)})

\* os.path.splitext(p)[0]
splitext_root(p) == SubSeq(p, 1, Len(p) - Len(splitext(p)))

\* the index loop of load_manifest: a later entry of a path replaces an earlier
RECURSIVE IndexEntries(_)
IndexEntries(files) ==
    IF files = <<>> THEN <<>>
    ELSE LET entry == files[Len(files)]
             rest == IndexEntries(SubSeq(files, 1, Len(files) - 1))
         IN  IF entry.path # <<>> THEN (entry.path :> entry) @@ rest ELSE rest

\* load_manifest(manifest_path)[1]
\* (a variant that starts from an empty index, to see that the retention
\* claim notices it)
load_index_empty(file) == <<>>
load_index(file) == IF ~file.exists THEN <<>> ELSE IndexEntries(file.files)

\* load_manifest(manifest_path)[0]
load_data(file) ==
    IF ~file.exists THEN [generated_at |-> NoTime, files |-> <<>>]
    ELSE [generated_at |-> file.generated_at, files |-> file.files]

\* sorted(index.values(), key=lambda e: e.get("path", ""))
SortedEntries(index) ==
    LET paths == sorted(DOMAIN index)
    IN  [i \in 1..Len(paths) |-> index[paths[i]]]

\* the file save_manifest writes at time t
save_manifest(data, index, t) ==
    [exists |-> TRUE, generated_at |-> t, files |-> SortedEntries(index)]

\* entry = manifest_index.get(name, {"path": name}); entry["type"] = ...;
\* entry["source_docx"] = ...; entry["parsed_at"] = ...; manifest_index[name] = entry
Upsert(index, name, type, source_docx, parsed_at) ==
    LET entry == IF name \in DOMAIN index THEN index[name] ELSE [path |-> name]
        updated == ("type" :> type) @@ ("source_docx" :> source_docx)
                      @@ ("parsed_at" :> parsed_at) @@ entry
    IN  (name :> updated) @@ index

\* the loop over image_files
RECURSIVE UpsertImages(_, _, _, _)
UpsertImages(index, image_files, source_docx, parsed_at) ==
    IF image_files = <<>> THEN index
    ELSE UpsertImages(Upsert(index, Head(image_files), "image", source_docx,
                             parsed_at),
                      Tail(image_files), source_docx, parsed_at)

\* what the except clause of the document loop does with a failure
\* (a variant without the except clause, to see that the skip claim
\* notices it)
FailureBoundaryReraises == "raise"
FailureBoundary == "continue"

(***************************************************************************)
(* parse_docx_table_with_images.  A document is [opens, rels, zip, tables]:*)
(* opens is whether Document(path) can read the file at all.               *)
(***************************************************************************)
\* the files the copies of an extraction leave in the output folder
RECURSIVE WriteImages(_, _)
WriteImages(files, written) ==
    IF written = <<>> THEN files
    ELSE WriteImages((Head(written).name :>
                         [type |-> "image", bytes |-> Head(written).bytes,
                          cards |-> <<>>]) @@ files,
                     Tail(written))

\* json.dump(cards, f) into output_json_path
WriteJson(files, name, cds) ==
    (name :> [type |-> "json", bytes |-> "", cards |-> cds]) @@ files

parse_docx_table_with_images(d, base, index, header) ==
    IF ~d.opens
    THEN [raised |-> TRUE, written |-> <<>>, cards |-> <<>>, image_files |-> <<>>]
    ELSE LET ex == extract_images_from_docx(d, base)
         IN  IF index >= Len(d.tables)
             THEN [raised |-> TRUE, written |-> ex.written, cards |-> <<>>,
                   image_files |-> <<>>]
             ELSE [raised |-> FALSE, written |-> ex.written,
                   cards |-> parse_rows(d.tables[index + 1], header,
                                        ex.image_map),
                   image_files |-> ex.all_final_names]

(***************************************************************************)
(* The documents and directories of the batches.                           *)
(***************************************************************************)
HeaderRow == <<BlankCell, ListCell>>

TableOne == <<HeaderRow, <<TitleCell, ListCell>>, <<EmptyCell, EmptyCell>>>>
TableTwo == <<<<TitleCell, EmptyCell>>>>

ImageRel(target_ref) == [reltype |-> ImageRelType, target_ref |-> target_ref]

\* two ids of one image, an image missing from the archive, a third image;
\* two tables
DocA1 ==
    [opens |-> TRUE,
     rels |-> RelsOf(<<ImageRel(MediaAPng), ImageRel(AbsWordMediaAPng),
                       ImageRel(AbsMediaB), ImageRel(MediaCJpg)>>),
     zip |-> (ZipAPng :> "bytesA") @@ (ZipCJpg :> "bytesC"),
     tables |-> <<TableOne, TableTwo>>]

\* one image and no table
DocA2 ==
    [opens |-> TRUE,
     rels |-> RelsOf(<<ImageRel(MediaCJpg)>>),
     zip |-> (ZipCJpg :> "bytesC"),
     tables |-> <<>>]

\* one image and one table
DocB1 ==
    [opens |-> TRUE,
     rels |-> RelsOf(<<ImageRel(MediaAPng)>>),
     zip |-> (ZipAPng :> "bytesB"),
     tables |-> <<TableTwo>>]

\* a file that is no readable document
DocB2 == [opens |-> FALSE, rels |-> <<>>, zip |-> <<>>, tables |-> <<>>]

FileA == <<"A", ".", "d", "o", "c", "x">>
FileB == <<"B", ".", "D", "O", "C", "X">>
LockFileA == <<"~", "$", "A", ".", "d", "o", "c", "x">>
OtherFile == <<"B", ".", "d", "o", "c">>

\* a directory maps each file name to the name of its content
ContentOf(version) ==
    CASE version = "A1" -> DocA1
      [] version = "A2" -> DocA2
      [] version = "B1" -> DocB1
      [] version = "B2" -> DocB2

\* the versions of the documents a directory is drawn from
Versions(f) ==
    IF f = FileA THEN {"A1", "A2"} ELSE {"B1", "B2"}

\* the files of every directory: a lock file and a file that is no .docx
FixedFiles == (LockFileA :> "A1") @@ (OtherFile :> "B2")

Directories ==
    {FixedFiles} \cup
    {(FileA :> a) @@ FixedFiles : a \in Versions(FileA)} \cup
    {(FileB :> b) @@ FixedFiles : b \in Versions(FileB)} \cup
    {(FileA :> a) @@ (FileB :> b) @@ FixedFiles :
        a \in Versions(FileA), b \in Versions(FileB)}

(***************************************************************************)
(* Spec: batches of main() over a directory that changes between batches.  *)
(***************************************************************************)
Init ==
    /\ phase = "idle"
    /\ directory \in Directories
    /\ output_dir = <<>>
    /\ manifest_file = NoManifest
    /\ table_index \in 0..MaxTableIndex
    /\ has_header \in BOOLEAN
    /\ docx_files = <<>>
    /\ manifest_data = [generated_at |-> NoTime, files |-> <<>>]
    /\ manifest_index = <<>>
    /\ now = 0
    /\ batches = 0
    /\ started = [directory |-> <<>>, output_dir |-> <<>>,
                  manifest_file |-> NoManifest]
    /\ previous = [ran |-> FALSE, directory |-> <<>>, written_by |-> <<>>]
    /\ journal = NoJournal
    /\ NoImages
    /\ NoRendering

\* main up to the document loop: load_manifest, the listing, the early return
StartBatch ==
    /\ phase \in {"idle", "done"}
    /\ batches < MaxBatches
    /\ batches' = batches + 1
    /\ manifest_data' = load_data(manifest_file)
    /\ manifest_index' = load_index(manifest_file)
    /\ docx_files' = ListDocx(directory)
    /\ phase' = IF docx_files' = <<>> THEN "done" ELSE "loop"
    /\ previous' = [ran |-> batches > 0, directory |-> started.directory,
                    written_by |-> journal.written_by]
    /\ started' = [directory |-> directory, output_dir |-> output_dir,
                   manifest_file |-> manifest_file]
    /\ journal' = [NoJournal EXCEPT !.listed = docx_files']
    /\ UNCHANGED <<directory, output_dir, manifest_file, table_index,
                   has_header, now, fn_vars>>

\* one pass of the document loop
ProcessDocument ==
    /\ phase = "loop"
    /\ docx_files # <<>>
    /\ LET filename == Head(docx_files)
           base == splitext_root(filename)
           output_json_name == base \o DotJson
           out == parse_docx_table_with_images(ContentOf(directory[filename]),
                                               base,
                                               table_index, has_header)
           copied == WriteImages(output_dir, out.written)
           names == {out.written[k].name : k \in 1..Len(out.written)}
       IN  IF out.raised
           THEN /\ output_dir' = copied
                /\ manifest_index' = manifest_index
                /\ phase' = IF FailureBoundary = "continue"
                            THEN "loop" ELSE "done"
                /\ journal' = [journal EXCEPT
                                 !.handled = Append(@, filename),
                                 !.skipped = @ \cup {filename},
                                 !.written_by = (filename :> names) @@ @]
           ELSE /\ output_dir' = WriteJson(copied, output_json_name, out.cards)
                /\ manifest_index' =
                      UpsertImages(Upsert(manifest_index, output_json_name,
                                          "json", filename, now),
                                   out.image_files, filename, now)
                /\ phase' = "loop"
                /\ journal' = [journal EXCEPT
                                 !.handled = Append(@, filename),
                                 !.json_written = @ \cup {output_json_name},
                                 !.written_by = (filename :> names) @@ @,
                                 !.staged = @ \cup {output_json_name}
                                    \cup {out.image_files[k] :
                                            k \in 1..Len(out.image_files)}]
    /\ docx_files' = Tail(docx_files)
    /\ UNCHANGED <<directory, manifest_file, table_index, has_header,
                   manifest_data, now, batches, started, previous, fn_vars>>

\* save_manifest after the loop
SaveManifest ==
    /\ phase = "loop"
    /\ docx_files = <<>>
    /\ manifest_file' = save_manifest(manifest_data, manifest_index, now)
    /\ manifest_data' = [generated_at |-> now,
                         files |-> SortedEntries(manifest_index)]
    /\ journal' = [journal EXCEPT !.saved = TRUE]
    /\ phase' = "done"
    /\ UNCHANGED <<directory, output_dir, table_index, has_header, docx_files,
                   manifest_index, now, batches, started, previous, fn_vars>>

\* time passes while a batch runs
Tick ==
    /\ phase = "loop"
    /\ now < MaxClock
    /\ now' = now + 1
    /\ UNCHANGED <<phase, has_header, fn_vars, directory, output_dir,
                   manifest_file, table_index, docx_files, manifest_data,
                   manifest_index, batches, started, previous, journal>>

\* between two batches the user adds, removes or replaces documents
EditDirectory ==
    /\ phase = "done"
    /\ batches < MaxBatches
    /\ directory' \in Directories \ {directory}
    /\ UNCHANGED <<phase, has_header, fn_vars, output_dir, manifest_file,
                   table_index, docx_files, manifest_data, manifest_index,
                   now, batches, started, previous, journal>>

Next ==
    \/ StartBatch
    \/ ProcessDocument
    \/ SaveManifest
    \/ Tick
    \/ EditDirectory

Spec == Init /\ [][Next]_vars

(***************************************************************************)
(* Claims about the batch.                                                 *)
(***************************************************************************)
\* the entries of a manifest file under a path (none or one)
EntriesAt(file, path) ==
    {file.files[k] : k \in {m \in 1..Len(file.files) : file.files[m].path = path}}

\* an entry without its parsed_at
Unstamped(entry) ==
    [path |-> entry.path, type |-> entry.type, source_docx |-> entry.source_docx]

\* what parse_docx_table_with_images gives for a document of this batch
OutcomeOf(f) ==
    parse_docx_table_with_images(ContentOf(started.directory[f]),
                                 splitext_root(f), table_index, has_header)

JsonNameOf(f) == splitext_root(f) \o <<".", "j", "s", "o", "n">>

\* the manifest keys a document of this batch produces: its JSON file and its
\* image files, when it is processed without failure
KeysProducedBy(f) ==
    IF OutcomeOf(f).raised THEN {}
    ELSE {JsonNameOf(f)}
            \cup {OutcomeOf(f).image_files[k] :
                     k \in 1..Len(OutcomeOf(f).image_files)}

\* the documents of this batch
BatchDocuments == {journal.listed[k] : k \in 1..Len(journal.listed)}

\* C3: every entry that was in the manifest file before the batch and whose
\* key no document of the batch produces is in the manifest file after the
\* batch with all of its fields unchanged.
C3_UntouchedEntriesSurvive ==
    (phase = "done" /\ batches > 0) =>
        \A e \in {started.manifest_file.files[k] :
                     k \in 1..Len(started.manifest_file.files)} :
            (\A f \in BatchDocuments : e.path \notin KeysProducedBy(f))
               => e \in EntriesAt(manifest_file, e.path)

\* a second batch that staged entries of its own saved a manifest that still
\* holds an entry of the first batch that it did not produce
C3_Witness ==
    /\ phase = "done"
    /\ batches = 2
    /\ journal.saved
    /\ journal.staged # {}
    /\ \E k \in 1..Len(started.manifest_file.files) :
          /\ started.manifest_file.files[k].path \notin journal.staged
          /\ started.manifest_file.files[k]
                \in EntriesAt(manifest_file, started.manifest_file.files[k].path)

\* the documents of this batch that the batch before processed with the same
\* content, no other document of this batch writing a file of theirs
RerunDocuments ==
    {f \in BatchDocuments :
        /\ previous.ran
        /\ f \in DOMAIN previous.directory
        /\ f \in DOMAIN previous.written_by
        /\ previous.directory[f] = started.directory[f]
        /\ \A g \in BatchDocuments \ {f} :
              /\ JsonNameOf(g) # JsonNameOf(f)
              /\ g \in DOMAIN journal.written_by
                    => journal.written_by[g] \cap journal.written_by[f] = {}}

\* the second run on an unchanged document wrote image files of the same
\* names and the same content as the first
SameImagesAsBefore(f) ==
    /\ journal.written_by[f] = previous.written_by[f]
    /\ \A name \in journal.written_by[f] :
          /\ name \in DOMAIN started.output_dir
          /\ output_dir[name] = started.output_dir[name]

\* the names of the files, written or not, that belong to a document
FilesOf(f) == {JsonNameOf(f)} \cup journal.written_by[f]

\* C4 as stated: after a second run on an unchanged document, its image files
\* have the same names and content and its manifest entries are unchanged.
C4_RerunLeavesEntriesUnchanged ==
    (phase = "done" /\ journal.saved) =>
        \A f \in RerunDocuments :
            /\ SameImagesAsBefore(f)
            /\ \A key \in FilesOf(f) :
                  EntriesAt(manifest_file, key)
                     = EntriesAt(started.manifest_file, key)

\* C4 as amended: after a second run on an unchanged document, its image
\* files have the same names and content and its manifest entries are
\* unchanged but for their parsed_at.
C4_RerunChangesOnlyParsedAt ==
    (phase = "done" /\ journal.saved) =>
        \A f \in RerunDocuments :
            /\ SameImagesAsBefore(f)
            /\ \A key \in FilesOf(f) :
                  {Unstamped(e) : e \in EntriesAt(manifest_file, key)}
                     = {Unstamped(e) : e \in EntriesAt(started.manifest_file, key)}

\* a document with images was processed twice with the same content, the
\* clock having moved in between, and has its entries in the saved manifest
C4_Witness ==
    /\ phase = "done"
    /\ journal.saved
    /\ batches = 2
    /\ FileA \in RerunDocuments
    /\ started.directory[FileA] = "A1"
    /\ Cardinality(journal.written_by[FileA]) = 2
    /\ \A key \in FilesOf(FileA) :
          /\ EntriesAt(manifest_file, key) # {}
          /\ EntriesAt(manifest_file, key)
                # EntriesAt(started.manifest_file, key)

\* the index as load_manifest built it at the start of the batch
EntriesLoaded(key) == EntriesAt(started.manifest_file, key)

EntriesStaged(key) ==
    IF key \in DOMAIN manifest_index THEN {manifest_index[key]} ELSE {}

C10_WrittenImagesAreIndexed ==
    (phase = "done" /\ journal.saved) =>
        \A f \in DOMAIN journal.written_by :
            \A name \in journal.written_by[f] :
                \E e \in EntriesAt(manifest_file, name) : e.type = "image"

====
